---- MODULE Spec2Model ----
(***************************************************************************)
(* The azurerm_mariadb_virtual_network_rule resource: its create/update,   *)
(* read and delete handlers, the status refresh function they hand to the  *)
(* state-change poller, and the poll itself.  Time is counted in minutes.  *)
(* The azurerm_app_service_custom_hostname_binding resource: its create,   *)
(* read and delete handlers and the named lock they take.  The            *)
(* azurerm_kubernetes_cluster resource: its plan-time CustomizeDiff, its   *)
(* create, update and read handlers and the expansion of its agent pool    *)
(* profiles.  The azurerm_automation_dsc_nodeconfiguration resource: its   *)
(* create/update, read and delete handlers.  The delete handler of the     *)
(* azurerm_storage_data_lake_gen2_filesystem resource.                     *)
(***************************************************************************)
EXTENDS Integers, Sequences, FiniteSets, TLC

VARIABLES
    op,               \* the handler each operation runs
    rule,             \* the virtual network rule each operation works on
    pc,               \* the position of each operation inside its handler
    ret,              \* what the handler returned: "none" while running
    resourceId,       \* d.Id() of the operation's resource data
    mutations,        \* mutating API calls (CreateOrUpdate, Delete) issued
    ctxDone,          \* the operation's context is cancelled or past its deadline
    outcome,          \* the outcome of the operation's poll
    targetOccurence,  \* the poll's consecutive-target counter
    elapsed,          \* minutes the poll has waited so far
    fetches,          \* calls of the refresh function made by the poll
    lastFetch,        \* what client.Get answered to the last refresh
    lastLabel,        \* the status label the last refresh returned
    snapshot,         \* the result value the last refresh returned
    readyRun,         \* history: length of the trailing run of Ready answers
    prevRun,          \* history: length of the Ready run before the last other answer
    lastBreak,        \* history: the last answer that was not Ready
    notFoundRun,      \* history: length of the trailing run of not-found answers
    startId,          \* history: d.Id() when the handler was entered
    polls,            \* history: calls of stateConf.WaitForState()
    followUpGets,     \* history: calls of client.Get made after the poll
    createAnswer,     \* history: what client.CreateOrUpdate answered
    shouldImport,     \* features.ShouldResourcesBeImported()
    existing,         \* history: what the existence check of the import guard answered
    subnet,           \* the subnet the handler fetched, until its last use
    answers,          \* history: the answers to a poll's fetches, kept where two operations run
    locks,            \* the names that are locked in the lock registry
    appService,       \* the app service whose hostname binding an operation works on
    hostname,         \* the hostname of that binding
    acquired,         \* history: calls of locks.ByName that have returned
    released,         \* history: calls of locks.UnlockByName
    apiCalls,         \* history: calls of the app service or cluster client
    calls,            \* history: the resource client's calls from the mutating call on, with their answers
    attrs,            \* where the attributes held in d come from
    sslState,         \* history: ssl_state as the handler read it
    thumbprint,       \* history: thumbprint as the handler read it
    sentBinding,      \* history: the bindings sent to CreateOrUpdateHostNameBinding
    servicePrincipalChanged,  \* history: d.HasChange("service_principal") as the handler read it
    agentPools,       \* history: agent_pool_profile as the handler read it
    sentProfiles,     \* history: the agent pool profiles sent to CreateOrUpdate
    networkProfile,   \* the network_profile of the planned configuration
    diffResult        \* what CustomizeDiff returned for it

vars == <<op, rule, pc, ret, resourceId, mutations, ctxDone, outcome,
          targetOccurence, elapsed, fetches, lastFetch, lastLabel, snapshot,
          readyRun, prevRun, lastBreak, notFoundRun, startId, polls,
          followUpGets, createAnswer, shouldImport, existing, subnet,
          answers, locks, appService, hostname, acquired, released, apiCalls,
          calls, attrs, sslState, thumbprint, sentBinding, servicePrincipalChanged,
          agentPools, sentProfiles, networkProfile, diffResult>>

handlerVars == <<op, rule, resourceId, mutations>>
pollVars == <<outcome, targetOccurence, elapsed, fetches, lastFetch, lastLabel,
              snapshot, readyRun, prevRun, lastBreak, notFoundRun>>
callVars == <<startId, polls, followUpGets, createAnswer>>
guardVars == <<shouldImport, existing, subnet>>
lockVars == <<locks, acquired, released>>
bindingRecord == <<sslState, thumbprint, sentBinding>>
clusterRecord == <<servicePrincipalChanged, agentPools, sentProfiles>>
diffVars == <<networkProfile, diffResult>>
recordVars == <<bindingRecord, clusterRecord, diffVars>>
logVars == <<calls, attrs>>
hostVars == <<lockVars, appService, hostname, recordVars, apiCalls>>

Ops == {"op1", "op2"}
RuleNames == {"rule-a", "rule-b"}

\* Longest list of service endpoints a subnet answer carries in the model.
MaxEndpoints == 2

\* Longest list of agent_pool_profile blocks of a cluster in the model.
MaxAgentPools == 2

\* time.Minute: the unit in which the model counts time.
Minute == 1

-----------------------------------------------------------------------------
(* The StateChangeConf built by the create/update handler. *)

\* Mutant of Pending: a label too many in the list.
PendingWithFailed == {"Initializing", "InProgress", "Unknown", "ResponseNotFound", "Failed"}

Pending == {"Initializing", "InProgress", "Unknown", "ResponseNotFound"}

Target == {"Ready"}

\* Mutant of Timeout: 3 minutes instead of 30.
TimeoutOfThree == 3 * Minute

Timeout == 30 * Minute

MinTimeout == 1 * Minute

\* Mutant of ContinuousTargetOccurence: one occurrence too few.
ContinuousTargetOccurenceOfFour == 5 - 1

ContinuousTargetOccurence == 5

\* The handler sets no polling interval.
PollInterval == 0 * Minute

-----------------------------------------------------------------------------
(* Answers of the Azure clients. *)

\* States a virtual network rule reports in its properties.
RuleStates == {"Initializing", "InProgress", "Ready", "Unknown", "Deleting", "Failed"}

\* client.Get of the rule: a 404, another error, a rule without properties,
\* or a rule whose properties carry a state.
AllGetResponses == {"NotFound", "Error", "NoProps"} \cup RuleStates

\* A call made with a context that is done fails with the context's error.
GetResponses(o) == IF ctxDone[o] THEN {"Error"} ELSE AllGetResponses

CallResponses(o, all) == IF ctxDone[o] THEN {"Error"} ELSE all

\* utils.ResponseWasNotFound / response.WasNotFound
ResponseWasNotFound(resp) == resp = "NotFound"

ServiceNames == {"nil", "Microsoft.Sql", "MICROSOFT.SQL", "Microsoft.Storage"}

RECURSIVE SeqsUpTo(_, _)
SeqsUpTo(S, n) ==
    IF n = 0 THEN {<<>>}
    ELSE LET shorter == SeqsUpTo(S, n - 1)
         IN  shorter \cup {Append(s, x) : s \in {t \in shorter : Len(t) = n - 1}, x \in S}

\* No subnet is held.
NoSubnet == [kind |-> "none", services |-> <<>>]

\* A subnet: no properties, no endpoint list, or its list of endpoint services.
Subnets ==
    {[kind |-> k, services |-> <<>>] : k \in {"NoProps", "NoEndpoints"}}
    \cup {[kind |-> "Endpoints", services |-> e] : e \in SeqsUpTo(ServiceNames, MaxEndpoints)}

ToLower(s) ==
    CASE s = "Microsoft.Sql" -> "microsoft.sql"
      [] s = "MICROSOFT.SQL" -> "microsoft.sql"
      [] s = "Microsoft.Storage" -> "microsoft.storage"
      [] OTHER -> s

\* strings.EqualFold
EqualFold(s, t) == ToLower(s) = ToLower(t)

\* Mutant of ContainsEndpoint: the service name is not compared.
ContainsAnyEndpoint(s) ==
    /\ s.kind = "Endpoints"
    /\ \E i \in DOMAIN s.services : s.services[i] # "nil"

\* The endpoint loop of the create/update handler.
ContainsEndpoint(s) ==
    /\ s.kind = "Endpoints"
    /\ \E i \in DOMAIN s.services :
          /\ s.services[i] # "nil"
          /\ EqualFold(s.services[i], "Microsoft.Sql")

-----------------------------------------------------------------------------
(* The refresh function: what it returns for an answer of client.Get. *)

\* Mutant of MariaDbVirtualNetworkStateStatusCodeRefreshFunc: the 404 is not told apart from other errors.
RefreshFuncWhereNotFoundIsError(resp) ==
    IF resp \in {"NotFound", "Error"}
    THEN [result |-> "nil", state |-> "", err |-> TRUE]
    ELSE IF resp # "NoProps"
         THEN [result |-> "resp", state |-> resp, err |-> FALSE]
         ELSE [result |-> "resp", state |-> "Unknown", err |-> FALSE]

\* Mutant of MariaDbVirtualNetworkStateStatusCodeRefreshFunc: every error is reported as the 404 is.
RefreshFuncWhereEveryErrorIsNotFound(resp) ==
    IF resp \in {"NotFound", "Error"}
    THEN [result |-> "nil", state |-> "ResponseNotFound", err |-> FALSE]
    ELSE IF resp # "NoProps"
         THEN [result |-> "resp", state |-> resp, err |-> FALSE]
         ELSE [result |-> "resp", state |-> "Unknown", err |-> FALSE]

\* Mutant of MariaDbVirtualNetworkStateStatusCodeRefreshFunc: a rule without properties is an error.
RefreshFuncWhereNoPropertiesIsError(resp) ==
    IF resp \in {"NotFound", "Error"}
    THEN IF ResponseWasNotFound(resp)
         THEN [result |-> "nil", state |-> "ResponseNotFound", err |-> FALSE]
         ELSE [result |-> "nil", state |-> "", err |-> TRUE]
    ELSE IF resp # "NoProps"
         THEN [result |-> "resp", state |-> resp, err |-> FALSE]
         ELSE [result |-> "nil", state |-> "", err |-> TRUE]

MariaDbVirtualNetworkStateStatusCodeRefreshFunc(resp) ==
    IF resp \in {"NotFound", "Error"}
    THEN IF ResponseWasNotFound(resp)
         THEN [result |-> "nil", state |-> "ResponseNotFound", err |-> FALSE]
         ELSE [result |-> "nil", state |-> "", err |-> TRUE]
    ELSE IF resp # "NoProps"
         THEN [result |-> "resp", state |-> resp, err |-> FALSE]
         ELSE [result |-> "resp", state |-> "Unknown", err |-> FALSE]

-----------------------------------------------------------------------------
(* The poller, resource.StateChangeConf.WaitForState of the plugin SDK.  Its  *)
(* source is not part of the resource files; it is modelled after its        *)
(* documented protocol: wait, fetch, classify the label, count the           *)
(* consecutive target labels, give up when the time is used up.              *)

\* The cancellation signal the poll is given: WaitForState() is called with
\* none; the operation's context reaches only client.Get inside the refresh.
PollCancel(o) == FALSE

\* Mutant of PollWaitTime: the floor is not applied.
PollWaitTimeWithoutFloor == PollInterval

\* The wait before every fetch: the interval, never below the floor.
PollWaitTime == IF PollInterval > MinTimeout THEN PollInterval ELSE MinTimeout

\* Mutant of PollTimedOut: the budget is never used up.
PollNeverTimedOut(waited) == FALSE

\* Whether the poll has used up its budget.
PollTimedOut(waited) == waited > Timeout

\* Mutant of PollCount: a pending label leaves the counter as it is.
PollCountNeverReset(class, count) ==
    IF class = "target" THEN count + 1 ELSE count

\* The consecutive-success counter after a refresh of the given class.
PollCount(class, count) ==
    IF class = "target" THEN count + 1
    ELSE IF class = "pending" THEN 0
    ELSE count

\* Mutant of PollClassify: a refresh that returns no result is a failure.
PollClassifyNilIsFailure(r) ==
    IF r.err \/ r.result = "nil" THEN "fetchFailure"
    ELSE IF r.state \in Target THEN "target"
    ELSE IF r.state \in Pending THEN "pending"
    ELSE "unexpected"

\* What one refresh means to the poll.
PollClassify(r) ==
    IF r.err THEN "fetchFailure"
    ELSE IF r.state \in Target THEN "target"
    ELSE IF r.state \in Pending THEN "pending"
    ELSE "unexpected"

-----------------------------------------------------------------------------

\* One call of the resource's client at a call site of the handler, and its answer.
Call(o, site, answer) ==
    calls' = [calls EXCEPT ![o] = Append(@, [site |-> site, answer |-> answer])]

Return(o, value) ==
    /\ pc' = [pc EXCEPT ![o] = "done"]
    /\ ret' = [ret EXCEPT ![o] = value]

Goto(o, where) ==
    /\ pc' = [pc EXCEPT ![o] = where]
    /\ UNCHANGED ret

\* A configuration without a network_profile block.
NoNetworkProfile == [exists |-> FALSE, blocks |-> 0, network_plugin |-> "", pod_cidr |-> "",
                     docker_bridge_cidr |-> "", dns_service_ip |-> "", service_cidr |-> ""]

InitCommon ==
    /\ ret = [o \in Ops |-> "none"]
    /\ mutations = [o \in Ops |-> 0]
    /\ ctxDone = [o \in Ops |-> FALSE]
    /\ outcome = [o \in Ops |-> "none"]
    /\ targetOccurence = [o \in Ops |-> 0]
    /\ elapsed = [o \in Ops |-> 0]
    /\ fetches = [o \in Ops |-> 0]
    /\ lastFetch = [o \in Ops |-> "none"]
    /\ lastLabel = [o \in Ops |-> "none"]
    /\ snapshot = [o \in Ops |-> "nil"]
    /\ readyRun = [o \in Ops |-> 0]
    /\ prevRun = [o \in Ops |-> 0]
    /\ lastBreak = [o \in Ops |-> "none"]
    /\ notFoundRun = [o \in Ops |-> 0]
    /\ polls = [o \in Ops |-> 0]
    /\ followUpGets = [o \in Ops |-> 0]
    /\ createAnswer = [o \in Ops |-> "none"]
    /\ shouldImport \in BOOLEAN
    /\ existing = [o \in Ops |-> "none"]
    /\ subnet = [o \in Ops |-> NoSubnet]
    /\ answers = [o \in Ops |-> <<>>]
    /\ locks = {}
    /\ acquired = [o \in Ops |-> 0]
    /\ released = [o \in Ops |-> 0]
    /\ apiCalls = [o \in Ops |-> 0]
    /\ calls = [o \in Ops |-> <<>>]
    /\ attrs = [o \in Ops |-> "config"]
    /\ sslState = [o \in Ops |-> ""]
    /\ thumbprint = [o \in Ops |-> ""]
    /\ sentBinding = [o \in Ops |-> <<>>]
    /\ servicePrincipalChanged = [o \in Ops |-> FALSE]
    /\ agentPools = [o \in Ops |-> <<>>]
    /\ sentProfiles = [o \in Ops |-> <<>>]
    /\ diffResult = "none"

StartPc(kind) ==
    CASE kind = "CreateUpdate" -> "start"
      [] kind = "Delete" -> "delete"
      [] kind = "HostnameBindingCreate" -> "bindingLock"
      [] kind = "HostnameBindingDelete" -> "bindingDelete"
      [] kind = "ClusterCreate" -> "clusterCreate"
      [] kind = "ClusterUpdate" -> "clusterUpdate"
      [] kind = "ClusterRead" -> "clusterRead"
      [] kind = "Read" -> "read"
      [] kind = "HostnameBindingRead" -> "bindingRead"
      [] kind = "DscCreateUpdate" -> "dscStart"
      [] kind = "DscRead" -> "dscRead"
      [] kind = "DscDelete" -> "dscDelete"
      [] kind = "DataLakeDelete" -> "dataLakeDelete"
      [] OTHER -> "done"

\* A new resource has no ID yet; an existing one has.
StartIds(kind) ==
    CASE kind \in {"Delete", "HostnameBindingDelete", "DscDelete", "DataLakeDelete",
                   "Read", "HostnameBindingRead", "DscRead", "ClusterRead",
                   "ClusterUpdate"} -> {"id"}
      [] kind \in {"CreateUpdate", "DscCreateUpdate"} -> {"", "id"}
      [] OTHER -> {""}

\* One operation runs alone.
Init ==
    /\ InitCommon
    /\ networkProfile = NoNetworkProfile
    /\ \E k \in {"CreateUpdate", "Delete"} :
          /\ op = [o \in Ops |-> IF o = "op1" THEN k ELSE "None"]
          /\ pc = [o \in Ops |-> IF o = "op1" THEN StartPc(k) ELSE "done"]
          /\ \E i \in StartIds(k) : resourceId = [o \in Ops |-> IF o = "op1" THEN i ELSE ""]
    /\ startId = resourceId
    /\ rule = [o \in Ops |-> "rule-a"]
    /\ appService = [o \in Ops |-> "app-a"]
    /\ hostname = [o \in Ops |-> "host-1"]

-----------------------------------------------------------------------------
(* resourceArmMariaDbVirtualNetworkRuleCreateUpdate *)

\* Answers of the existence check: as client.Get, with the ID the rule carries.
ExistingResponses == {"NotFound", "Error", "Found", "FoundNoID"}

\* Mutant of ImportGuard: a resource that exists does not stop the create.
ImportGuardWithoutExistsError(checked, answer) ==
    IF checked /\ answer \in {"NotFound", "Error"} /\ ~ResponseWasNotFound(answer)
      THEN "error: checking for presence"
      ELSE "proceed"

\* The import guard at the head of a create: the verdict on the answer of the
\* existence check, which is made when checked holds.
ImportGuard(checked, answer) ==
    IF checked /\ answer \in {"NotFound", "Error"} /\ ~ResponseWasNotFound(answer)
      THEN "error: checking for presence"
    ELSE IF checked /\ answer = "Found"
      THEN "error: import as exists"
    ELSE "proceed"

\* The import guard and the parse of subnet_id.
CUStart(o) ==
    /\ pc[o] = "start"
    /\ \E parses \in BOOLEAN, answer \in CallResponses(o, ExistingResponses) :
          LET isNew == resourceId[o] = ""
              checked == shouldImport /\ isNew
              verdict == ImportGuard(checked, answer)
          IN  /\ existing' = [existing EXCEPT ![o] = IF checked THEN answer ELSE "none"]
              /\ IF verdict # "proceed"
                    THEN Return(o, verdict)
                  ELSE IF ~parses
                    THEN Return(o, "error: parse subnet id")
                  ELSE Goto(o, "subnet")
    /\ UNCHANGED <<hostVars, logVars, handlerVars, ctxDone, pollVars, callVars, shouldImport, subnet, answers>>

\* The subnet must carry a Microsoft.Sql service endpoint.
CUSubnet(o) ==
    /\ pc[o] = "subnet"
    /\ \E resp \in CallResponses(o, {"NotFound", "Error", "OK"}), s \in Subnets :
          /\ subnet' = [subnet EXCEPT ![o] = IF resp = "OK" THEN s
                                             ELSE [kind |-> resp, services |-> <<>>]]
          /\ IF resp # "OK"
                THEN IF ResponseWasNotFound(resp)
                       THEN Return(o, "error: subnet not found")
                       ELSE Return(o, "error: obtaining subnet")
              ELSE IF ~ContainsEndpoint(s)
                THEN Return(o, "error: no service endpoint")
              ELSE Goto(o, "createOrUpdate")
    /\ UNCHANGED <<hostVars, logVars, handlerVars, ctxDone, pollVars, callVars, shouldImport, existing, answers>>

\* Mutant of AfterCreateOrUpdate: the error of the call is dropped.
AfterCreateOrUpdateErrorDropped(o, resp) ==
    /\ Goto(o, "pollWait")
    /\ polls' = [polls EXCEPT ![o] = @ + 1]

\* The error check after client.CreateOrUpdate; on success the
\* StateChangeConf is built and stateConf.WaitForState() is called.
AfterCreateOrUpdate(o, resp) ==
    IF resp # "OK"
      THEN /\ Return(o, "error: creating")
           /\ UNCHANGED polls
      ELSE /\ Goto(o, "pollWait")
           /\ polls' = [polls EXCEPT ![o] = @ + 1]

\* client.CreateOrUpdate
CUCreateOrUpdate(o) ==
    /\ pc[o] = "createOrUpdate"
    /\ mutations' = [mutations EXCEPT ![o] = @ + 1]
    /\ subnet' = [subnet EXCEPT ![o] = NoSubnet]
    /\ \E resp \in CallResponses(o, {"OK", "Error"}) :
          /\ createAnswer' = [createAnswer EXCEPT ![o] = resp]
          /\ Call(o, "CreateOrUpdate", resp)
          /\ AfterCreateOrUpdate(o, resp)
    /\ UNCHANGED <<hostVars, attrs, op, rule, resourceId, ctxDone, pollVars, startId, followUpGets,
                   shouldImport, existing, answers>>

\* Mutant of AfterWaitForState: the error of the poll is dropped.
AfterWaitForStateErrorDropped(o, result) ==
    Goto(o, "finalGet")

\* The error check after stateConf.WaitForState().
AfterWaitForState(o, result) ==
    IF result # "success"
      THEN Return(o, "error: waiting")
      ELSE Goto(o, "finalGet")

\* Mutant of StateConfOf: one StateChangeConf serves every operation.
StateConfShared(o) == "op1"

\* The StateChangeConf an operation polls with: the one its own call of the
\* handler has built.
StateConfOf(o) == o

\* stateConf.WaitForState(): the wait before a fetch.
PollWait(o) ==
    /\ pc[o] = "pollWait"
    /\ IF PollCancel(o)
         THEN /\ outcome' = [outcome EXCEPT ![o] = "timeout"]
              /\ AfterWaitForState(o, "timeout")
              /\ UNCHANGED elapsed
         ELSE /\ elapsed' = [elapsed EXCEPT ![o] = @ + PollWaitTime]
              /\ IF PollTimedOut(elapsed'[o])
                   THEN /\ outcome' = [outcome EXCEPT ![o] = "timeout"]
                        /\ AfterWaitForState(o, "timeout")
                   ELSE /\ Goto(o, "pollFetch")
                        /\ UNCHANGED outcome
    /\ UNCHANGED <<hostVars, logVars, handlerVars, ctxDone, targetOccurence, fetches, lastFetch,
                   lastLabel, snapshot, readyRun, prevRun, lastBreak, notFoundRun,
                   callVars, guardVars, answers>>

\* stateConf.WaitForState(): one fetch that client.Get answers with resp.
Fetch(o, resp) ==
    LET r == MariaDbVirtualNetworkStateStatusCodeRefreshFunc(resp)
        class == PollClassify(r)
        count == PollCount(class, targetOccurence[StateConfOf(o)])
        reached == class = "target" /\ count = ContinuousTargetOccurence
    IN  /\ pc[o] = "pollFetch"
        /\ fetches' = [fetches EXCEPT ![o] = @ + 1]
        /\ lastFetch' = [lastFetch EXCEPT ![o] = resp]
        /\ lastLabel' = [lastLabel EXCEPT ![o] = r.state]
        /\ snapshot' = [snapshot EXCEPT ![o] = r.result]
        /\ targetOccurence' = [targetOccurence EXCEPT ![StateConfOf(o)] = count]
        /\ readyRun' = [readyRun EXCEPT ![o] = IF resp = "Ready" THEN @ + 1 ELSE 0]
        /\ prevRun' = [prevRun EXCEPT ![o] = IF resp = "Ready" THEN @ ELSE readyRun[o]]
        /\ lastBreak' = [lastBreak EXCEPT ![o] = IF resp = "Ready" THEN @ ELSE resp]
        /\ notFoundRun' = [notFoundRun EXCEPT ![o] = IF resp = "NotFound" THEN @ + 1 ELSE 0]
        /\ CASE class = "fetchFailure" ->
                  /\ outcome' = [outcome EXCEPT ![o] = "fetchFailure"]
                  /\ AfterWaitForState(o, "fetchFailure")
             [] class = "unexpected" ->
                  /\ outcome' = [outcome EXCEPT ![o] = "unexpected"]
                  /\ AfterWaitForState(o, "unexpected")
             [] reached ->
                  /\ outcome' = [outcome EXCEPT ![o] = "success"]
                  /\ AfterWaitForState(o, "success")
             [] OTHER ->
                  /\ Goto(o, "pollWait")
                  /\ UNCHANGED outcome
        /\ UNCHANGED <<hostVars, logVars, handlerVars, ctxDone, elapsed, callVars, guardVars>>

PollFetch(o) ==
    /\ \E resp \in GetResponses(o) : Fetch(o, resp)
    /\ UNCHANGED answers

\* The Get after the poll, and d.SetId(*resp.ID).
CUFinalGet(o) ==
    /\ pc[o] = "finalGet"
    /\ followUpGets' = [followUpGets EXCEPT ![o] = @ + 1]
    /\ \E resp \in CallResponses(o, {"NotFound", "Error", "OK", "OKNoID"}) :
          /\ Call(o, "Get", resp)
          /\ IF resp \in {"NotFound", "Error"}
                THEN /\ Return(o, "error: retrieving")
                     /\ UNCHANGED resourceId
              ELSE IF resp = "OKNoID"
                THEN /\ Return(o, "panic: nil dereference")
                     /\ UNCHANGED resourceId
              ELSE /\ resourceId' = [resourceId EXCEPT ![o] = "id"]
                   /\ Goto(o, "read")
    /\ UNCHANGED <<hostVars, attrs, op, rule, mutations, ctxDone, pollVars, startId, polls, createAnswer, guardVars, answers>>

-----------------------------------------------------------------------------
(* resourceArmMariaDbVirtualNetworkRuleRead *)

Read(o) ==
    /\ pc[o] = "read"
    /\ \E parses \in BOOLEAN, resp \in CallResponses(o, {"NotFound", "Error", "OK"}) :
          IF ~parses
            THEN /\ Return(o, "error: parse id")
                 /\ UNCHANGED <<resourceId, followUpGets, logVars>>
          ELSE /\ followUpGets' = [followUpGets EXCEPT ![o] = @ + 1]
               /\ Call(o, "Read", resp)
               /\ IF resp # "OK"
                    THEN IF ResponseWasNotFound(resp)
                           THEN /\ resourceId' = [resourceId EXCEPT ![o] = ""]
                                /\ Return(o, "nil")
                                /\ UNCHANGED attrs
                           ELSE /\ Return(o, "error: reading")
                                /\ UNCHANGED <<resourceId, attrs>>
                    ELSE /\ attrs' = [attrs EXCEPT ![o] = "remote"]
                         /\ Return(o, "nil")
                         /\ UNCHANGED resourceId
    /\ UNCHANGED <<hostVars, op, rule, mutations, ctxDone, pollVars, startId, polls, createAnswer, guardVars, answers>>

-----------------------------------------------------------------------------
(* resourceArmMariaDbVirtualNetworkRuleDelete *)

\* The parse of the ID and client.Delete.
Delete(o) ==
    /\ pc[o] = "delete"
    /\ \E parses \in BOOLEAN, resp \in CallResponses(o, {"NotFound", "Error", "OK"}) :
          IF ~parses
            THEN /\ Return(o, "error: parse id")
                 /\ UNCHANGED <<mutations, calls>>
          ELSE /\ mutations' = [mutations EXCEPT ![o] = @ + 1]
               /\ Call(o, "Delete", resp)
               /\ IF resp # "OK"
                    THEN IF ResponseWasNotFound(resp)
                           THEN Return(o, "nil")
                           ELSE Return(o, "error: deleting")
                    ELSE Goto(o, "deleteWait")
    /\ UNCHANGED <<hostVars, attrs, op, rule, resourceId, ctxDone, pollVars, callVars, guardVars, answers>>

\* future.WaitForCompletionRef
DeleteWait(o) ==
    /\ pc[o] = "deleteWait"
    /\ \E resp \in CallResponses(o, {"NotFound", "Error", "OK"}) :
          /\ Call(o, "DeleteWait", resp)
          /\ IF resp # "OK" /\ ~ResponseWasNotFound(resp)
                THEN Return(o, "error: waiting for deletion")
                ELSE Return(o, "nil")
    /\ UNCHANGED <<hostVars, attrs, handlerVars, ctxDone, pollVars, callVars, guardVars, answers>>

-----------------------------------------------------------------------------

\* The caller cancels the operation, or the operation's deadline passes.
CtxDone(o) ==
    /\ pc[o] # "done"
    /\ ~ctxDone[o]
    /\ ctxDone' = [ctxDone EXCEPT ![o] = TRUE]
    /\ UNCHANGED <<hostVars, logVars, handlerVars, pc, ret, pollVars, callVars, guardVars, answers>>

Next ==
    \E o \in Ops :
       \/ CUStart(o)
       \/ CUSubnet(o)
       \/ CUCreateOrUpdate(o)
       \/ PollWait(o)
       \/ PollFetch(o)
       \/ CUFinalGet(o)
       \/ Read(o)
       \/ Delete(o)
       \/ DeleteWait(o)
       \/ CtxDone(o)

Spec == Init /\ [][Next]_vars

\* The handler's goroutine keeps running: the timer of a started wait fires
\* and a due fetch is made.
SpecLive ==
    /\ Init
    /\ [][Next]_vars
    /\ \A o \in Ops : WF_vars(PollWait(o)) /\ WF_vars(PollFetch(o))

-----------------------------------------------------------------------------
(* Two operations run concurrently; no rule is in an unexpected state and   *)
(* nobody cancels.                                                          *)

SettledGetResponses == {"Ready", "Error"}

PollFetchSettled(o) ==
    \E resp \in SettledGetResponses :
       /\ Fetch(o, resp)
       /\ answers' = [answers EXCEPT ![o] = Append(@, resp)]

InitConc ==
    /\ InitCommon
    /\ networkProfile = NoNetworkProfile
    /\ op \in [Ops -> {"CreateUpdate", "Delete"}]
    /\ pc = [o \in Ops |-> StartPc(op[o])]
    /\ resourceId \in [Ops -> {"", "id"}]
    /\ \A o \in Ops : resourceId[o] \in StartIds(op[o])
    /\ rule \in [Ops -> RuleNames]
    /\ rule["op1"] = "rule-a"
    /\ startId = resourceId
    /\ appService = [o \in Ops |-> "app-a"]
    /\ hostname = [o \in Ops |-> "host-1"]

NextConc ==
    \E o \in Ops :
       \/ CUStart(o)
       \/ CUSubnet(o)
       \/ CUCreateOrUpdate(o)
       \/ PollWait(o)
       \/ PollFetchSettled(o)
       \/ CUFinalGet(o)
       \/ Read(o)
       \/ Delete(o)
       \/ DeleteWait(o)

SpecConc == InitConc /\ [][NextConc]_vars

-----------------------------------------------------------------------------
(* The lock registry, locks.ByName and locks.UnlockByName.  Its source is   *)
(* not part of the resource files; it is modelled as a mutual-exclusion     *)
(* registry keyed by name.                                                  *)

\* locks.ByName returns once the name is locked for the caller.
ByName(o, name) ==
    /\ name \notin locks
    /\ locks' = locks \cup {name}
    /\ acquired' = [acquired EXCEPT ![o] = @ + 1]
    /\ UNCHANGED released

UnlockByName(o, name) ==
    /\ locks' = locks \ {name}
    /\ released' = [released EXCEPT ![o] = @ + 1]
    /\ UNCHANGED acquired

-----------------------------------------------------------------------------
(* resourceArmAppServiceCustomHostnameBindingCreate, ...Read and ...Delete *)

AppServiceNames == {"app-a", "app-b"}
Hostnames == {"host-1", "host-2"}

\* What the handlers leave alone: the state of the virtual network rule handlers.
ruleVars == <<rule, pollVars, polls, followUpGets, createAnswer, subnet, answers>>

\* Mutant of BindingLockName: the lock is keyed by the hostname.
BindingLockNameIsHostname(o) == hostname[o]

\* The name the handlers lock: the app service name.
BindingLockName(o) == appService[o]

\* Mutant of BindingReturn: the lock is not released.
BindingReturnWithoutUnlock(o, value) ==
    /\ Return(o, value)
    /\ UNCHANGED lockVars

\* A return after the lock was acquired: the deferred locks.UnlockByName runs.
BindingReturn(o, value) ==
    /\ Return(o, value)
    /\ UnlockByName(o, BindingLockName(o))

\* One call of the app service client.
BindingApiCall(o) == apiCalls' = [apiCalls EXCEPT ![o] = @ + 1]

\* locks.ByName at the head of Create.
BindingCreateLock(o) ==
    /\ pc[o] = "bindingLock"
    /\ ByName(o, BindingLockName(o))
    /\ Goto(o, "bindingGuard")
    /\ UNCHANGED <<handlerVars, ctxDone, ruleVars, startId, shouldImport, existing,
                   appService, hostname, recordVars, logVars, apiCalls>>

SslStates == {"", "SniEnabled"}
Thumbprints == {"", "thumbprint"}

\* Mutant of BindingValidate: ssl_state is accepted without a thumbprint.
BindingValidateThumbprintOptional(ssl, thumb) ==
    IF thumb # "" /\ ssl = ""
      THEN "error: ssl_state must be specified"
      ELSE "proceed"

\* The validation of ssl_state and thumbprint.
BindingValidate(ssl, thumb) ==
    IF ssl # "" /\ thumb = ""
      THEN "error: thumbprint must be specified"
    ELSE IF thumb # "" /\ ssl = ""
      THEN "error: ssl_state must be specified"
    ELSE "proceed"

\* The properties built for the call: SslState is a string and is left empty
\* when ssl_state is empty; Thumbprint is a pointer, shown as the set of what
\* it points to.
BindingProperties(ssl, thumb) ==
    [SslState |-> ssl, Thumbprint |-> IF thumb # "" THEN {thumb} ELSE {}]

\* The import guard and the validation of ssl_state and thumbprint.
BindingCreateGuard(o) ==
    /\ pc[o] = "bindingGuard"
    /\ \E answer \in CallResponses(o, ExistingResponses) :
       \E ssl \in SslStates, thumb \in Thumbprints :
          LET isNew == resourceId[o] = ""
              checked == shouldImport /\ isNew
              verdict == ImportGuard(checked, answer)
              valid == BindingValidate(ssl, thumb)
          IN  /\ sslState' = [sslState EXCEPT ![o] = ssl]
              /\ thumbprint' = [thumbprint EXCEPT ![o] = thumb]
              /\ existing' = [existing EXCEPT ![o] = IF checked THEN answer ELSE "none"]
              /\ IF checked THEN BindingApiCall(o) ELSE UNCHANGED apiCalls
              /\ IF verdict # "proceed"
                    THEN BindingReturn(o, verdict)
                  ELSE IF valid # "proceed"
                    THEN BindingReturn(o, valid)
                  ELSE /\ Goto(o, "bindingCreateOrUpdate")
                       /\ UNCHANGED lockVars
    /\ UNCHANGED <<handlerVars, ctxDone, ruleVars, startId, shouldImport,
                   appService, hostname, sentBinding, clusterRecord, diffVars, logVars>>

\* client.CreateOrUpdateHostNameBinding
BindingCreateOrUpdate(o) ==
    /\ pc[o] = "bindingCreateOrUpdate"
    /\ BindingApiCall(o)
    /\ mutations' = [mutations EXCEPT ![o] = @ + 1]
    /\ sentBinding' = [sentBinding EXCEPT
                          ![o] = Append(@, BindingProperties(sslState[o], thumbprint[o]))]
    /\ \E resp \in CallResponses(o, {"OK", "Error"}) :
          /\ Call(o, "CreateOrUpdate", resp)
          /\ IF resp # "OK"
                THEN BindingReturn(o, "error: creating")
                ELSE /\ Goto(o, "bindingGet")
                     /\ UNCHANGED lockVars
    /\ UNCHANGED <<op, resourceId, ctxDone, ruleVars, startId, shouldImport, existing,
                   appService, hostname, sslState, thumbprint, clusterRecord, diffVars, attrs>>

\* client.GetHostNameBinding after the create, and d.SetId(*read.ID).
BindingGet(o) ==
    /\ pc[o] = "bindingGet"
    /\ BindingApiCall(o)
    /\ \E resp \in CallResponses(o, {"NotFound", "Error", "OK", "OKNoID"}) :
          /\ Call(o, "Get", resp)
          /\ IF resp \in {"NotFound", "Error"}
                THEN /\ BindingReturn(o, "error: retrieving")
                     /\ UNCHANGED resourceId
              ELSE IF resp = "OKNoID"
                THEN /\ BindingReturn(o, "error: cannot read ID")
                     /\ UNCHANGED resourceId
              ELSE /\ resourceId' = [resourceId EXCEPT ![o] = "id"]
                   /\ Goto(o, "bindingRead")
                   /\ UNCHANGED lockVars
    /\ UNCHANGED <<op, mutations, ctxDone, ruleVars, startId, shouldImport, existing,
                   appService, hostname, recordVars, attrs>>

\* A return of Read: Read takes no lock of its own; when Create called it,
\* Create returns what Read returned and Create's deferred unlock runs.
BindingReadReturn(o, value) ==
    IF op[o] = "HostnameBindingCreate"
      THEN BindingReturn(o, value)
      ELSE /\ Return(o, value)
           /\ UNCHANGED lockVars

\* resourceArmAppServiceCustomHostnameBindingRead, on its own or called at the
\* end of Create.
BindingRead(o) ==
    /\ pc[o] = "bindingRead"
    /\ \E parses \in BOOLEAN, resp \in CallResponses(o, {"NotFound", "Error", "OK"}) :
          IF ~parses
            THEN /\ BindingReadReturn(o, "error: parse id")
                 /\ UNCHANGED <<resourceId, apiCalls, logVars>>
          ELSE /\ BindingApiCall(o)
               /\ Call(o, "Read", resp)
               /\ IF resp # "OK"
                    THEN IF ResponseWasNotFound(resp)
                           THEN /\ resourceId' = [resourceId EXCEPT ![o] = ""]
                                /\ BindingReadReturn(o, "nil")
                                /\ UNCHANGED attrs
                           ELSE /\ BindingReadReturn(o, "error: reading")
                                /\ UNCHANGED <<resourceId, attrs>>
                    ELSE /\ attrs' = [attrs EXCEPT ![o] = "remote"]
                         /\ BindingReadReturn(o, "nil")
                         /\ UNCHANGED resourceId
    /\ UNCHANGED <<op, mutations, ctxDone, ruleVars, startId, shouldImport, existing,
                   appService, hostname, recordVars>>

\* The parse of the ID at the head of Delete: a failure returns before the lock.
BindingDeleteStart(o) ==
    /\ pc[o] = "bindingDelete"
    /\ \E parses \in BOOLEAN :
          IF ~parses
            THEN Return(o, "error: parse id")
            ELSE Goto(o, "bindingDeleteLock")
    /\ UNCHANGED <<hostVars, logVars, handlerVars, ctxDone, ruleVars, startId, shouldImport, existing>>

\* locks.ByName in Delete.
BindingDeleteLock(o) ==
    /\ pc[o] = "bindingDeleteLock"
    /\ ByName(o, BindingLockName(o))
    /\ Goto(o, "bindingDeleteCall")
    /\ UNCHANGED <<handlerVars, ctxDone, ruleVars, startId, shouldImport, existing,
                   appService, hostname, recordVars, logVars, apiCalls>>

\* client.DeleteHostNameBinding
BindingDeleteCall(o) ==
    /\ pc[o] = "bindingDeleteCall"
    /\ BindingApiCall(o)
    /\ mutations' = [mutations EXCEPT ![o] = @ + 1]
    /\ \E resp \in CallResponses(o, {"NotFound", "Error", "OK"}) :
          /\ Call(o, "Delete", resp)
          /\ IF resp # "OK" /\ ~ResponseWasNotFound(resp)
                THEN BindingReturn(o, "error: deleting")
                ELSE BindingReturn(o, "nil")
    /\ UNCHANGED <<op, resourceId, ctxDone, ruleVars, startId, shouldImport, existing,
                   appService, hostname, recordVars, attrs>>

BindingStep(o) ==
    \/ BindingCreateLock(o)
    \/ BindingCreateGuard(o)
    \/ BindingCreateOrUpdate(o)
    \/ BindingGet(o)
    \/ BindingRead(o)
    \/ BindingDeleteStart(o)
    \/ BindingDeleteLock(o)
    \/ BindingDeleteCall(o)

\* Two hostname-binding operations run concurrently.
InitBinding ==
    /\ InitCommon
    /\ networkProfile = NoNetworkProfile
    /\ op \in [Ops -> {"HostnameBindingCreate", "HostnameBindingDelete"}]
    /\ pc = [o \in Ops |-> StartPc(op[o])]
    /\ resourceId \in [Ops -> {"", "id"}]
    /\ \A o \in Ops : resourceId[o] \in StartIds(op[o])
    /\ startId = resourceId
    /\ rule = [o \in Ops |-> "rule-a"]
    /\ appService \in [Ops -> AppServiceNames]
    /\ appService["op1"] = "app-a"
    /\ hostname \in [Ops -> Hostnames]
    /\ hostname["op1"] = "host-1"

NextBinding == \E o \in Ops : BindingStep(o)

SpecBinding == InitBinding /\ [][NextBinding]_vars

\* The handlers' goroutines keep running.
SpecBindingLive ==
    /\ InitBinding
    /\ [][NextBinding]_vars
    /\ \A o \in Ops : WF_vars(BindingStep(o))

-----------------------------------------------------------------------------
(* resourceArmKubernetesClusterCreate, ...Update and ...Read *)

\* An agent_pool_profile block, as far as the expansion looks at its counts:
\* count is between 1 and 100, min_count and max_count are 0 when not configured.
AgentPoolConfigs ==
    [count : {1, 2}, enable_auto_scaling : BOOLEAN, min_count : {0, 1}, max_count : {0, 3}]

\* Mutant of ExpandAgentPoolProfilesFails: only min_count is looked at.
ExpandAgentPoolProfilesFailsOnMinCountOnly(configs) ==
    \E i \in DOMAIN configs :
       /\ configs[i].enable_auto_scaling
       /\ configs[i].min_count <= 0

\* Whether expandKubernetesClusterAgentPoolProfiles returns its error:
\* auto scaling is enabled and min_count or max_count is not above zero.
ExpandAgentPoolProfilesFails(configs) ==
    \E i \in DOMAIN configs :
       /\ configs[i].enable_auto_scaling
       /\ configs[i].min_count <= 0 \/ configs[i].max_count <= 0

\* Mutant of AgentPoolProfile: the count is always sent.
AgentPoolProfileWithCount(config, isNew) ==
    [Count |-> {config.count},
     MaxCount |-> IF config.max_count > 0 THEN {config.max_count} ELSE {},
     MinCount |-> IF config.min_count > 0 THEN {config.min_count} ELSE {},
     EnableAutoScaling |-> config.enable_auto_scaling]

\* The profile one pass of the loop builds from a block. A pointer field is
\* shown as the set of what it points to: the empty set is nil.
AgentPoolProfile(config, isNew) ==
    [Count |-> IF config.enable_auto_scaling /\ ~isNew THEN {} ELSE {config.count},
     MaxCount |-> IF config.max_count > 0 THEN {config.max_count} ELSE {},
     MinCount |-> IF config.min_count > 0 THEN {config.min_count} ELSE {},
     EnableAutoScaling |-> config.enable_auto_scaling]

\* expandKubernetesClusterAgentPoolProfiles: the error, or the profiles in
\* the order of the blocks.
expandKubernetesClusterAgentPoolProfiles(configs, isNew) ==
    IF ExpandAgentPoolProfilesFails(configs)
      THEN [failed |-> TRUE, profiles |-> <<>>]
      ELSE [failed |-> FALSE,
            profiles |-> [i \in DOMAIN configs |-> AgentPoolProfile(configs[i], isNew)]]

\* The import guard and the expansion of the agent pool profiles.
ClusterCreateStart(o) ==
    /\ pc[o] = "clusterCreate"
    /\ \E answer \in CallResponses(o, ExistingResponses) :
       \E configs \in SeqsUpTo(AgentPoolConfigs, MaxAgentPools) \ {<<>>} :
          LET checked == shouldImport
              verdict == ImportGuard(checked, answer)
          IN  /\ existing' = [existing EXCEPT ![o] = IF checked THEN answer ELSE "none"]
              /\ apiCalls' = [apiCalls EXCEPT ![o] = IF checked THEN @ + 1 ELSE @]
              /\ IF verdict # "proceed"
                    THEN /\ Return(o, verdict)
                         /\ UNCHANGED agentPools
                    ELSE /\ agentPools' = [agentPools EXCEPT ![o] = configs]
                         /\ IF expandKubernetesClusterAgentPoolProfiles(configs, resourceId[o] = "").failed
                               THEN Return(o, "error: autoscaling without min_count or max_count")
                               ELSE Goto(o, "clusterCreateOrUpdate")
    /\ UNCHANGED <<handlerVars, ctxDone, ruleVars, startId, shouldImport, lockVars,
                   appService, hostname, bindingRecord, servicePrincipalChanged,
                   sentProfiles, diffVars, logVars>>

\* Mutant of AfterResetServicePrincipalProfile: the completion is not awaited.
AfterResetWithoutWait(o, resp) ==
    IF resp # "OK"
      THEN Return(o, "error: updating service principal")
      ELSE Goto(o, "clusterUpdateExpand")

\* The error check after client.ResetServicePrincipalProfile.
AfterResetServicePrincipalProfile(o, resp) ==
    IF resp # "OK"
      THEN Return(o, "error: updating service principal")
      ELSE Goto(o, "clusterResetWait")

\* The head of Update: the parse of the ID and, when service_principal has
\* changed, client.ResetServicePrincipalProfile.
ClusterUpdateStart(o) ==
    /\ pc[o] = "clusterUpdate"
    /\ \E parses \in BOOLEAN, changed \in BOOLEAN, resp \in CallResponses(o, {"OK", "Error"}) :
          IF ~parses
            THEN /\ Return(o, "error: parse id")
                 /\ UNCHANGED <<mutations, apiCalls, calls, servicePrincipalChanged>>
          ELSE /\ servicePrincipalChanged' = [servicePrincipalChanged EXCEPT ![o] = changed]
               /\ IF changed
                    THEN /\ mutations' = [mutations EXCEPT ![o] = @ + 1]
                         /\ apiCalls' = [apiCalls EXCEPT ![o] = @ + 1]
                         /\ Call(o, "ResetServicePrincipalProfile", resp)
                         /\ AfterResetServicePrincipalProfile(o, resp)
                    ELSE /\ Goto(o, "clusterUpdateExpand")
                         /\ UNCHANGED <<mutations, apiCalls, calls>>
    /\ UNCHANGED <<op, resourceId, ctxDone, ruleVars, startId, shouldImport, existing,
                   lockVars, appService, hostname, bindingRecord, agentPools, sentProfiles,
                   diffVars, attrs>>

\* future.WaitForCompletionRef on the reset of the service principal.
ClusterResetWait(o) ==
    /\ pc[o] = "clusterResetWait"
    /\ \E resp \in CallResponses(o, {"OK", "Error"}) :
          /\ Call(o, "ResetWait", resp)
          /\ IF resp # "OK"
                THEN Return(o, "error: waiting for service principal")
                ELSE Goto(o, "clusterUpdateExpand")
    /\ UNCHANGED <<hostVars, attrs, handlerVars, ctxDone, ruleVars, startId, shouldImport, existing>>

\* The expansion of the agent pool profiles in Update.
ClusterUpdateExpand(o) ==
    /\ pc[o] = "clusterUpdateExpand"
    /\ \E configs \in SeqsUpTo(AgentPoolConfigs, MaxAgentPools) \ {<<>>} :
          /\ agentPools' = [agentPools EXCEPT ![o] = configs]
          /\ IF expandKubernetesClusterAgentPoolProfiles(configs, resourceId[o] = "").failed
                THEN Return(o, "error: autoscaling without min_count or max_count")
                ELSE Goto(o, "clusterCreateOrUpdate")
    /\ UNCHANGED <<handlerVars, ctxDone, ruleVars, startId, shouldImport, existing, lockVars,
                   appService, hostname, bindingRecord, servicePrincipalChanged,
                   sentProfiles, diffVars, logVars, apiCalls>>

\* client.CreateOrUpdate
ClusterCreateOrUpdate(o) ==
    /\ pc[o] = "clusterCreateOrUpdate"
    /\ apiCalls' = [apiCalls EXCEPT ![o] = @ + 1]
    /\ mutations' = [mutations EXCEPT ![o] = @ + 1]
    /\ sentProfiles' = [sentProfiles EXCEPT
          ![o] = Append(@, expandKubernetesClusterAgentPoolProfiles(agentPools[o], resourceId[o] = "").profiles)]
    /\ \E resp \in CallResponses(o, {"OK", "Error"}) :
          /\ Call(o, "CreateOrUpdate", resp)
          /\ IF resp # "OK"
                THEN Return(o, "error: creating")
                ELSE Goto(o, "clusterWait")
    /\ UNCHANGED <<op, resourceId, ctxDone, ruleVars, startId, shouldImport, existing,
                   lockVars, appService, hostname, bindingRecord, servicePrincipalChanged,
                   agentPools, diffVars, attrs>>

\* future.WaitForCompletionRef
ClusterWait(o) ==
    /\ pc[o] = "clusterWait"
    /\ \E resp \in CallResponses(o, {"OK", "Error"}) :
          /\ Call(o, "Wait", resp)
          /\ IF resp # "OK"
                THEN Return(o, "error: waiting for creation")
                ELSE Goto(o, "clusterGet")
    /\ UNCHANGED <<hostVars, attrs, handlerVars, ctxDone, ruleVars, startId, shouldImport, existing>>

\* client.Get after the create, and d.SetId(*read.ID).
ClusterGet(o) ==
    /\ pc[o] = "clusterGet"
    /\ apiCalls' = [apiCalls EXCEPT ![o] = @ + 1]
    /\ \E resp \in CallResponses(o, {"NotFound", "Error", "OK", "OKNoID"}) :
          /\ Call(o, "Get", resp)
          /\ IF resp \in {"NotFound", "Error"}
                THEN /\ Return(o, "error: retrieving")
                     /\ UNCHANGED resourceId
              ELSE IF resp = "OKNoID"
                THEN /\ Return(o, "error: cannot read ID")
                     /\ UNCHANGED resourceId
              ELSE /\ resourceId' = [resourceId EXCEPT ![o] = "id"]
                   /\ Goto(o, "clusterRead")
    /\ UNCHANGED <<op, mutations, ctxDone, ruleVars, startId, shouldImport, existing,
                   lockVars, appService, hostname, recordVars, attrs>>

\* resourceArmKubernetesClusterRead, on its own or called at the end of Create
\* or Update: the parse of the ID, client.Get, client.GetAccessProfile (rest),
\* and the d.Set calls after it, one of which may fail when some are made.
ClusterRead(o) ==
    /\ pc[o] = "clusterRead"
    /\ \E parses \in BOOLEAN, resp \in CallResponses(o, {"NotFound", "Error", "OK"}) :
       \E rest \in CallResponses(o, {"OK", "Error"}), allSet \in BOOLEAN :
          IF ~parses
            THEN /\ Return(o, "error: parse id")
                 /\ UNCHANGED <<resourceId, apiCalls, logVars>>
          ELSE IF resp # "OK"
            THEN /\ apiCalls' = [apiCalls EXCEPT ![o] = @ + 1]
                 /\ Call(o, "Read", resp)
                 /\ UNCHANGED attrs
                 /\ IF ResponseWasNotFound(resp)
                      THEN /\ resourceId' = [resourceId EXCEPT ![o] = ""]
                           /\ Return(o, "nil")
                      ELSE /\ Return(o, "error: retrieving")
                           /\ UNCHANGED resourceId
          ELSE /\ apiCalls' = [apiCalls EXCEPT ![o] = @ + 2]
               /\ Call(o, "Read", resp)
               /\ IF rest # "OK"
                    THEN /\ Return(o, "error: reading")
                         /\ UNCHANGED attrs
                  ELSE IF ~allSet
                    THEN /\ Return(o, "error: setting")
                         /\ attrs' = [attrs EXCEPT ![o] = "partial"]
                  ELSE /\ Return(o, "nil")
                       /\ attrs' = [attrs EXCEPT ![o] = "remote"]
               /\ UNCHANGED resourceId
    /\ UNCHANGED <<op, mutations, ctxDone, ruleVars, startId, shouldImport, existing,
                   lockVars, appService, hostname, recordVars>>

-----------------------------------------------------------------------------
(* resourceArmAutomationDscNodeConfigurationCreateUpdate, ...Read, ...Delete *)

\* The import guard.
DscStart(o) ==
    /\ pc[o] = "dscStart"
    /\ \E answer \in CallResponses(o, ExistingResponses) :
          LET isNew == resourceId[o] = ""
              checked == shouldImport /\ isNew
              verdict == ImportGuard(checked, answer)
          IN  /\ existing' = [existing EXCEPT ![o] = IF checked THEN answer ELSE "none"]
              /\ IF verdict # "proceed"
                    THEN Return(o, verdict)
                    ELSE Goto(o, "dscCreateOrUpdate")
    /\ UNCHANGED <<hostVars, logVars, handlerVars, ctxDone, ruleVars, startId, shouldImport>>

\* client.CreateOrUpdate
DscCreateOrUpdate(o) ==
    /\ pc[o] = "dscCreateOrUpdate"
    /\ mutations' = [mutations EXCEPT ![o] = @ + 1]
    /\ \E resp \in CallResponses(o, {"OK", "Error"}) :
          /\ Call(o, "CreateOrUpdate", resp)
          /\ IF resp # "OK"
                THEN Return(o, "error: creating")
                ELSE Goto(o, "dscGet")
    /\ UNCHANGED <<hostVars, attrs, op, resourceId, ctxDone, ruleVars, startId,
                   shouldImport, existing>>

\* client.Get after the create, the check of read.ID and d.SetId(*read.ID).
DscGet(o) ==
    /\ pc[o] = "dscGet"
    /\ \E resp \in CallResponses(o, {"NotFound", "Error", "OK", "OKNoID"}) :
          /\ Call(o, "Get", resp)
          /\ IF resp \in {"NotFound", "Error"}
                THEN /\ Return(o, "error: retrieving")
                     /\ UNCHANGED resourceId
              ELSE IF resp = "OKNoID"
                THEN /\ Return(o, "error: cannot read ID")
                     /\ UNCHANGED resourceId
              ELSE /\ resourceId' = [resourceId EXCEPT ![o] = "id"]
                   /\ Goto(o, "dscRead")
    /\ UNCHANGED <<hostVars, attrs, op, mutations, ctxDone, ruleVars, startId,
                   shouldImport, existing>>

\* Mutant of DscReadNotFound: the ID is kept when the resource is gone.
DscReadNotFoundKeepsId(o) == UNCHANGED resourceId

\* d.SetId("") on a not-found answer.
DscReadNotFound(o) == resourceId' = [resourceId EXCEPT ![o] = ""]

\* resourceArmAutomationDscNodeConfigurationRead, on its own or called at the
\* end of CreateUpdate. resp.Configuration is dereferenced unchecked.
DscRead(o) ==
    /\ pc[o] = "dscRead"
    /\ \E parses \in BOOLEAN,
          resp \in CallResponses(o, {"NotFound", "Error", "OK", "OKNoConfiguration"}) :
          IF ~parses
            THEN /\ Return(o, "error: parse id")
                 /\ UNCHANGED <<resourceId, logVars>>
          ELSE /\ Call(o, "Read", resp)
               /\ IF resp \in {"NotFound", "Error"}
                    THEN IF ResponseWasNotFound(resp)
                           THEN /\ DscReadNotFound(o)
                                /\ Return(o, "nil")
                                /\ UNCHANGED attrs
                           ELSE /\ Return(o, "error: reading")
                                /\ UNCHANGED <<resourceId, attrs>>
                  ELSE IF resp = "OKNoConfiguration"
                    THEN /\ Return(o, "panic: nil dereference")
                         /\ attrs' = [attrs EXCEPT ![o] = "partial"]
                         /\ UNCHANGED resourceId
                  ELSE /\ attrs' = [attrs EXCEPT ![o] = "remote"]
                       /\ Return(o, "nil")
                       /\ UNCHANGED resourceId
    /\ UNCHANGED <<hostVars, op, mutations, ctxDone, ruleVars, startId, shouldImport, existing>>

\* Mutant of DeleteVerdict: a not-found answer is an error like any other.
DeleteVerdictNotFoundIsError(resp) ==
    IF resp # "OK" THEN "error: deleting" ELSE "nil"

\* What a Delete returns on the answer of its one API call.
DeleteVerdict(resp) ==
    IF resp # "OK" /\ ~ResponseWasNotFound(resp) THEN "error: deleting" ELSE "nil"

\* resourceArmAutomationDscNodeConfigurationDelete
DscDelete(o) ==
    /\ pc[o] = "dscDelete"
    /\ \E parses \in BOOLEAN, resp \in CallResponses(o, {"NotFound", "Error", "OK"}) :
          IF ~parses
            THEN /\ Return(o, "error: parse id")
                 /\ UNCHANGED <<mutations, calls>>
          ELSE /\ mutations' = [mutations EXCEPT ![o] = @ + 1]
               /\ Call(o, "Delete", resp)
               /\ Return(o, DeleteVerdict(resp))
    /\ UNCHANGED <<hostVars, attrs, op, resourceId, ctxDone, ruleVars, startId,
                   shouldImport, existing>>

-----------------------------------------------------------------------------
(* resourceArmStorageDataLakeGen2FileSystemDelete *)

DataLakeDelete(o) ==
    /\ pc[o] = "dataLakeDelete"
    /\ \E parses \in BOOLEAN, resp \in CallResponses(o, {"NotFound", "Error", "OK"}) :
          IF ~parses
            THEN /\ Return(o, "error: parse id")
                 /\ UNCHANGED <<mutations, calls>>
          ELSE /\ mutations' = [mutations EXCEPT ![o] = @ + 1]
               /\ Call(o, "Delete", resp)
               /\ Return(o, DeleteVerdict(resp))
    /\ UNCHANGED <<hostVars, attrs, op, resourceId, ctxDone, ruleVars, startId,
                   shouldImport, existing>>

-----------------------------------------------------------------------------
(* One create runs alone: of a virtual network rule, of a hostname binding   *)
(* or of a cluster.                                                         *)

InitCreate ==
    /\ InitCommon
    /\ networkProfile = NoNetworkProfile
    /\ \E k \in {"CreateUpdate", "HostnameBindingCreate", "ClusterCreate"} :
          /\ op = [o \in Ops |-> IF o = "op1" THEN k ELSE "None"]
          /\ pc = [o \in Ops |-> IF o = "op1" THEN StartPc(k) ELSE "done"]
          /\ \E i \in StartIds(k) : resourceId = [o \in Ops |-> IF o = "op1" THEN i ELSE ""]
    /\ startId = resourceId
    /\ rule = [o \in Ops |-> "rule-a"]
    /\ appService = [o \in Ops |-> "app-a"]
    /\ hostname = [o \in Ops |-> "host-1"]

NextCreate ==
    \E o \in Ops :
       \/ CUStart(o)
       \/ CUSubnet(o)
       \/ CUCreateOrUpdate(o)
       \/ PollWait(o)
       \/ PollFetchSettled(o)
       \/ CUFinalGet(o)
       \/ Read(o)
       \/ BindingCreateLock(o)
       \/ BindingCreateGuard(o)
       \/ BindingCreateOrUpdate(o)
       \/ BindingGet(o)
       \/ BindingRead(o)
       \/ ClusterCreateStart(o)
       \/ ClusterCreateOrUpdate(o)
       \/ ClusterWait(o)
       \/ ClusterGet(o)
       \/ ClusterRead(o)

SpecCreate == InitCreate /\ [][NextCreate]_vars

-----------------------------------------------------------------------------
(* One handler runs alone, of any of the resources.                         *)

HandlerKinds ==
    {"CreateUpdate", "Read", "Delete",
     "HostnameBindingCreate", "HostnameBindingRead", "HostnameBindingDelete",
     "DscCreateUpdate", "DscRead", "DscDelete", "DataLakeDelete",
     "ClusterCreate", "ClusterUpdate", "ClusterRead"}

InitHandlers ==
    /\ InitCommon
    /\ networkProfile = NoNetworkProfile
    /\ \E k \in HandlerKinds :
          /\ op = [o \in Ops |-> IF o = "op1" THEN k ELSE "None"]
          /\ pc = [o \in Ops |-> IF o = "op1" THEN StartPc(k) ELSE "done"]
          /\ \E i \in StartIds(k) : resourceId = [o \in Ops |-> IF o = "op1" THEN i ELSE ""]
    /\ startId = resourceId
    /\ rule = [o \in Ops |-> "rule-a"]
    /\ appService = [o \in Ops |-> "app-a"]
    /\ hostname = [o \in Ops |-> "host-1"]

NextHandlers ==
    \E o \in Ops :
       \/ CUStart(o)
       \/ CUSubnet(o)
       \/ CUCreateOrUpdate(o)
       \/ PollWait(o)
       \/ PollFetchSettled(o)
       \/ CUFinalGet(o)
       \/ Read(o)
       \/ Delete(o)
       \/ DeleteWait(o)
       \/ BindingCreateLock(o)
       \/ BindingCreateGuard(o)
       \/ BindingCreateOrUpdate(o)
       \/ BindingGet(o)
       \/ BindingRead(o)
       \/ BindingDeleteStart(o)
       \/ BindingDeleteLock(o)
       \/ BindingDeleteCall(o)
       \/ DscStart(o)
       \/ DscCreateOrUpdate(o)
       \/ DscGet(o)
       \/ DscRead(o)
       \/ DscDelete(o)
       \/ DataLakeDelete(o)
       \/ ClusterCreateStart(o)
       \/ ClusterUpdateStart(o)
       \/ ClusterResetWait(o)
       \/ ClusterUpdateExpand(o)
       \/ ClusterCreateOrUpdate(o)
       \/ ClusterWait(o)
       \/ ClusterGet(o)
       \/ ClusterRead(o)
       \/ CtxDone(o)

SpecHandlers == InitHandlers /\ [][NextHandlers]_vars

-----------------------------------------------------------------------------
(* Properties. *)

Polling(o) == pc[o] \in {"pollWait", "pollFetch"}

\* C1: the poll reports success exactly at the 5th consecutive Ready answer:
\* a poll has succeeded if and only if the trailing run of Ready answers is
\* 5 long, the run never grows past 5 (no fetch follows the success), and a
\* poll that is still running has a shorter run.
C1_SuccessExactlyAtFifthReady ==
    \A o \in Ops :
       /\ readyRun[o] <= 5
       /\ outcome[o] = "success" <=> readyRun[o] = 5
       /\ outcome[o] = "success" => ~Polling(o) /\ lastFetch[o] = "Ready" /\ fetches[o] >= 5
       /\ Polling(o) => readyRun[o] < 5

\* ResponseNotFound, Initializing, InProgress, Ready x5: success at the 8th fetch.
C1_Witness ==
    /\ outcome["op1"] = "success"
    /\ fetches["op1"] = 8
    /\ prevRun["op1"] = 0
    /\ lastBreak["op1"] = "InProgress"

\* C2: a pending label resets the consecutive-success counter: after a
\* pending label the counter is 0, the counter of a poll that has not failed
\* is the length of the trailing run of Ready answers, success needs a run of
\* 5, and a poll that ended without a run of 5, an error or an unexpected
\* label ended in a timeout.
C2_PendingResetsCounter ==
    \A o \in Ops :
       /\ lastLabel[o] \in {"Initializing", "InProgress", "Unknown", "ResponseNotFound"}
             => targetOccurence[o] = 0
       /\ outcome[o] \in {"none", "success", "timeout"} => targetOccurence[o] = readyRun[o]
       /\ outcome[o] = "success" => targetOccurence[o] = 5
       /\ (  /\ fetches[o] > 0
             /\ ~Polling(o)
             /\ readyRun[o] < 5
             /\ lastLabel[o] \in {"Initializing", "InProgress", "Unknown",
                                  "ResponseNotFound", "Ready"}  )
             => outcome[o] = "timeout"

\* ..., Ready, Ready, InProgress, Ready and then the timeout.
C2_Witness ==
    /\ outcome["op1"] = "timeout"
    /\ prevRun["op1"] = 2
    /\ lastBreak["op1"] = "InProgress"
    /\ readyRun["op1"] = 1

\* C3: a fetch answered by a 404 is reported as the label ResponseNotFound
\* with no error, and the poll goes on: it is still polling, or has since
\* run out of time; it never ends in a fetch failure.
C3_NotFoundIsPending ==
    \A o \in Ops :
       lastFetch[o] = "NotFound" =>
          /\ lastLabel[o] = "ResponseNotFound"
          /\ outcome[o] \in {"none", "timeout"}
          /\ outcome[o] = "none" => Polling(o) /\ ret[o] = "none"

C3_Witness ==
    /\ lastFetch["op1"] = "NotFound"
    /\ pc["op1"] = "pollFetch"
    /\ fetches["op1"] = 2

\* C4: a fetch failing with an error other than a 404 ends the poll at once
\* in a fetch failure, whatever was observed before: the handler has
\* returned an error and the poll is at no position from which it fetches.
C4_OtherErrorIsFatal ==
    \A o \in Ops :
       /\ lastFetch[o] = "Error" =>
             outcome[o] = "fetchFailure" /\ pc[o] = "done" /\ ret[o] = "error: waiting"
       /\ outcome[o] = "fetchFailure" => lastFetch[o] = "Error"

\* Four Ready answers, a pending one, a Ready one, and then the error.
C4_Witness ==
    /\ outcome["op1"] = "fetchFailure"
    /\ prevRun["op1"] = 1
    /\ fetches["op1"] = 7
    /\ ~ctxDone["op1"]

\* C5: a label outside the pending and the target set ends the poll at once
\* in an unexpected-status outcome, and only such a label does.
C5_UnexpectedStatusIsFatal ==
    \A o \in Ops :
       /\ lastFetch[o] \in {"Deleting", "Failed"} =>
             outcome[o] = "unexpected" /\ pc[o] = "done" /\ ret[o] = "error: waiting"
       /\ outcome[o] = "unexpected" =>
             lastLabel[o] \notin {"Initializing", "InProgress", "Unknown",
                                  "ResponseNotFound", "Ready"}

C5_Witness ==
    /\ lastFetch["op1"] = "Failed"
    /\ outcome["op1"] = "unexpected"
    /\ prevRun["op1"] = 3

\* C6: the poll ends in a timeout exactly when its elapsed time exceeds 30
\* minutes; the run of Ready answers is then incomplete, the handler has
\* returned an error, and no fetch is made past the 30 minutes.
C6_TimeoutAfterThirtyMinutes ==
    \A o \in Ops :
       /\ outcome[o] = "timeout" <=> elapsed[o] > 30
       /\ outcome[o] = "timeout" =>
             /\ pc[o] = "done" /\ ret[o] = "error: waiting"
             /\ readyRun[o] < 5
             /\ lastFetch[o] \notin {"Error", "Deleting", "Failed"}
       /\ pc[o] = "pollFetch" => elapsed[o] <= 30
       /\ fetches[o] <= 30

\* Timed out one Ready answer short of success.
C6_Witness ==
    /\ outcome["op1"] = "timeout"
    /\ readyRun["op1"] = 4
    /\ fetches["op1"] = 30

\* C7: a 404 between Ready answers resets the counter like any pending
\* label: after it the counter is 0 and the snapshot is nil, and from then
\* on the counter counts only the Ready answers that followed it.
C7_NotFoundResetsCounter ==
    \A o \in Ops :
       /\ lastFetch[o] = "NotFound" => targetOccurence[o] = 0 /\ snapshot[o] = "nil"
       /\ lastBreak[o] = "NotFound" /\ lastFetch[o] = "Ready" =>
             targetOccurence[o] = readyRun[o]
       /\ lastBreak[o] = "NotFound" /\ readyRun[o] < 5 => outcome[o] # "success"

\* Ready x4, not-found, Ready: the poll has not succeeded and waits again.
C7_Witness ==
    /\ prevRun["op1"] = 4
    /\ lastBreak["op1"] = "NotFound"
    /\ readyRun["op1"] = 1
    /\ targetOccurence["op1"] = 1
    /\ pc["op1"] = "pollWait"

\* C8: a poll that was answered by nothing but 404s is still polling while
\* its time lasts, and its only terminal outcome is the timeout.
C8_NotFoundRetriedUntilTimeout ==
    \A o \in Ops :
       fetches[o] > 0 /\ notFoundRun[o] = fetches[o] =>
          /\ outcome[o] \in {"none", "timeout"}
          /\ elapsed[o] <= 30 => outcome[o] = "none" /\ Polling(o) /\ ret[o] = "none"

\* Thirty 404s in a row, and then the timeout.
C8_Witness ==
    /\ notFoundRun["op1"] = 30
    /\ outcome["op1"] = "timeout"

\* C9: once the operation's context is done (cancelled, or past the caller's
\* deadline) the poll makes no further fetch.
C9_NoFetchOnceContextDone ==
    [][\A o \in Ops : ctxDone[o] => fetches'[o] = fetches[o]]_vars

\* An operation between its mutating call and the end of the wait after it.
InMutateAndPoll(o) == pc[o] \in {"pollWait", "pollFetch", "deleteWait"}

\* C10: two operations on the same rule are never both between their
\* mutating call and the end of the wait that follows it.
C10_MutateAndPollExclusive ==
    \A a, b \in Ops :
       a # b /\ rule[a] = rule[b] => ~(InMutateAndPoll(a) /\ InMutateAndPoll(b))

\* C11: the poll waits the same fixed time, the floor of one minute, before
\* every fetch, the first included: the time waited is one minute per fetch
\* made, plus the minute of the wait that precedes the next fetch or that ran
\* into the timeout.
C11_FixedWaitBeforeEveryFetch ==
    \A o \in Ops :
       LET waits == IF pc[o] = "pollFetch" \/ outcome[o] = "timeout"
                    THEN fetches[o] + 1
                    ELSE fetches[o]
       IN  /\ elapsed[o] = waits * Minute
           /\ fetches[o] > 0 => elapsed[o] >= Minute

\* The poll is about to make its first fetch, one minute after it started.
C11_Witness ==
    /\ pc["op1"] = "pollFetch"
    /\ fetches["op1"] = 0
    /\ elapsed["op1"] = Minute

PollFailures == {"timeout", "unexpected", "fetchFailure"}

\* C12: a poll that ends in a timeout, an unexpected status or a fetch failure
\* makes create/update return an error at once: the poll was called once, no
\* Get follows it, and the resource ID is the one the handler was entered
\* with; create/update returns no error only after a successful poll.
C12_PollFailureIsReturned ==
    \A o \in Ops :
       /\ outcome[o] \in PollFailures =>
             /\ pc[o] = "done"
             /\ ret[o] = "error: waiting"
             /\ polls[o] = 1
             /\ followUpGets[o] = 0
             /\ resourceId[o] = startId[o]
       /\ op[o] = "CreateUpdate" /\ ret[o] = "nil" => outcome[o] = "success"

\* The update of an existing rule met a Failed state at its third fetch.
C12_Witness ==
    /\ outcome["op1"] = "unexpected"
    /\ lastFetch["op1"] = "Failed"
    /\ fetches["op1"] = 3
    /\ startId["op1"] = "id"
    /\ ret["op1"] = "error: waiting"

\* C13: the poll starts only after client.CreateOrUpdate has returned without
\* an error: a poll that was started, has waited or has fetched follows
\* exactly one successful mutating call, and a failed CreateOrUpdate ends the
\* handler with an error before any poll.
C13_PollOnlyAfterCreateOrUpdate ==
    \A o \in Ops :
       /\ polls[o] > 0 \/ fetches[o] > 0 \/ elapsed[o] > 0 \/ Polling(o) \/ outcome[o] # "none" =>
             /\ createAnswer[o] = "OK"
             /\ mutations[o] = 1
             /\ polls[o] = 1
       /\ createAnswer[o] = "Error" =>
             /\ pc[o] = "done"
             /\ ret[o] = "error: creating"
             /\ polls[o] = 0
             /\ fetches[o] = 0

\* CreateOrUpdate failed: the handler is done and no poll was started.
C13_Witness ==
    /\ createAnswer["op1"] = "Error"
    /\ mutations["op1"] = 1
    /\ ret["op1"] = "error: creating"

\* C15: a rule fetched without properties is reported as the label "Unknown"
\* with the response as result and no error; the label is pending, so the
\* fetch ends the poll with no error (the poll goes on, or the next wait runs
\* into the timeout) and leaves the consecutive-success counter at 0.
C15_NoPropertiesIsUnknownAndPending ==
    \A o \in Ops :
       lastFetch[o] = "NoProps" =>
          /\ lastLabel[o] = "Unknown"
          /\ snapshot[o] = "resp"
          /\ targetOccurence[o] = 0
          /\ readyRun[o] = 0
          /\ outcome[o] \in {"none", "timeout"}
          /\ outcome[o] = "none" => Polling(o)

\* Four Ready answers, then a rule without properties: the poll goes on.
C15_Witness ==
    /\ lastFetch["op1"] = "NoProps"
    /\ prevRun["op1"] = 4
    /\ fetches["op1"] = 5
    /\ pc["op1"] = "pollWait"

PollOutcomes == {"success"} \cup PollFailures

\* C14: every poll terminates: a running poll leads to a poll that has ended
\* with one of success, timeout, unexpected status and fetch failure; a poll
\* that was called and is not running has such an outcome, a running poll has
\* none and has waited no longer than the timeout and one wait; an outcome,
\* once produced, never changes.
C14_EveryPollTerminates ==
    /\ \A o \in Ops : Polling(o) ~> (~Polling(o) /\ outcome[o] \in PollOutcomes)
    /\ [](\A o \in Ops :
            /\ polls[o] > 0 /\ ~Polling(o) => outcome[o] \in PollOutcomes
            /\ Polling(o) => outcome[o] = "none"
            /\ elapsed[o] <= Timeout + PollWaitTime)
    /\ [][\A o \in Ops : outcome[o] # "none" => outcome'[o] = outcome[o]]_vars

\* Thirty fetches, none of them final: the poll ended in a timeout.
C14_Witness ==
    /\ outcome["op1"] = "timeout"
    /\ fetches["op1"] = 30
    /\ pc["op1"] = "done"

\* The spellings that equal "Microsoft.Sql" when case is ignored.
SqlSpellings == {"Microsoft.Sql", "MICROSOFT.SQL"}

HasSqlEndpoint(s) ==
    /\ s.kind = "Endpoints"
    /\ \E i \in DOMAIN s.services : s.services[i] \in SqlSpellings

SubnetErrors == {"error: subnet not found", "error: obtaining subnet", "error: no service endpoint"}

\* C20: create/update issues client.CreateOrUpdate only with a subnet that
\* was fetched and carries a service endpoint named "Microsoft.Sql" in some
\* letter case; a subnet that is not found, cannot be fetched or has no such
\* endpoint ends the handler with an error, with no mutating call, no poll
\* and the resource ID it was entered with.
C20_CreateOrUpdateNeedsSqlEndpoint ==
    /\ [](\A o \in Ops :
            /\ pc[o] = "createOrUpdate" => HasSqlEndpoint(subnet[o])
            /\ subnet[o].kind # "none" /\ ~HasSqlEndpoint(subnet[o]) =>
                  /\ pc[o] = "done"
                  /\ ret[o] \in SubnetErrors
                  /\ subnet[o].kind = "NotFound" <=> ret[o] = "error: subnet not found"
                  /\ subnet[o].kind = "Error" <=> ret[o] = "error: obtaining subnet"
            /\ ret[o] \in SubnetErrors =>
                  /\ ~HasSqlEndpoint(subnet[o])
                  /\ mutations[o] = 0
                  /\ polls[o] = 0
                  /\ fetches[o] = 0
                  /\ resourceId[o] = startId[o])
    /\ [][\A o \in Ops :
            op[o] = "CreateUpdate" /\ mutations'[o] # mutations[o] => HasSqlEndpoint(subnet[o])]_vars

\* The subnet's first endpoint has no service name, its second is spelled in
\* capitals: the endpoint loop has found it and CreateOrUpdate is next.
C20_Witness ==
    /\ pc["op1"] = "createOrUpdate"
    /\ subnet["op1"].services = <<"nil", "MICROSOFT.SQL">>

\* The poll run alone on a sequence of answers: its outcome and the number of
\* fetches it makes, from fetch i on with the given counter and time waited.
RECURSIVE PollAlone(_, _, _, _)
PollAlone(given, i, count, waited) ==
    LET time == waited + PollWaitTime
    IN  IF PollTimedOut(time)
          THEN [outcome |-> "timeout", fetches |-> i - 1]
        ELSE IF i > Len(given)
          THEN [outcome |-> "none", fetches |-> i - 1]
        ELSE LET r == MariaDbVirtualNetworkStateStatusCodeRefreshFunc(given[i])
                 class == PollClassify(r)
                 next == PollCount(class, count)
             IN  IF class \in {"fetchFailure", "unexpected"}
                   THEN [outcome |-> class, fetches |-> i]
                 ELSE IF class = "target" /\ next = ContinuousTargetOccurence
                   THEN [outcome |-> "success", fetches |-> i]
                 ELSE PollAlone(given, i + 1, next, time)

Holding(o) == acquired[o] > released[o]

\* An operation that is inside locks.ByName.
AtLock(o) == pc[o] \in {"bindingLock", "bindingDeleteLock"}

\* C17: hostname-binding Create and Delete lock the app service name before
\* their first API call and keep the lock until they return: an operation
\* that has made an API call and has not returned holds the lock of its app
\* service, two operations on one app service never hold it together, and
\* while one is between its first API call and its return the other makes no
\* API call; an operation on another app service finds its lock free.
C17_BindingOperationsSerialized ==
    /\ [](\A a, b \in Ops :
            /\ apiCalls[a] > 0 /\ pc[a] # "done" => Holding(a)
            /\ a # b /\ appService[a] = appService[b] => ~(Holding(a) /\ Holding(b))
            /\ a # b /\ appService[a] # appService[b] /\ AtLock(a) => appService[a] \notin locks)
    /\ [][\A a, b \in Ops :
            /\ apiCalls'[a] # apiCalls[a] => Holding(a)
            /\ a # b /\ appService[a] = appService[b] /\ apiCalls[a] > 0 /\ pc[a] # "done"
                  => apiCalls'[b] = apiCalls[b]]_vars

\* A Create has made its existence check and its CreateOrUpdate; a Delete of
\* another hostname of the same app service waits for the lock.
C17_Witness ==
    /\ appService["op1"] = appService["op2"]
    /\ hostname["op1"] # hostname["op2"]
    /\ pc["op1"] = "bindingGet"
    /\ apiCalls["op1"] = 2
    /\ pc["op2"] = "bindingDeleteLock"

\* C18: the hostname-binding lock is never leaked: an operation locks at most
\* once, every return after the lock (import-exists error, validation error,
\* API error, missing ID, success) has released it exactly once and no
\* release comes before the return, so exactly the names of the operations
\* inside their locked section are locked, and an operation that waits for
\* the lock gets it.
C18_BindingLockNeverLeaked ==
    /\ [](\A o \in Ops :
            /\ acquired[o] <= 1
            /\ pc[o] # "done" => released[o] = 0
            /\ pc[o] = "done" => released[o] = acquired[o]
            /\ pc[o] = "done" /\ acquired[o] = 0 =>
                  op[o] = "HostnameBindingDelete" /\ ret[o] = "error: parse id")
    /\ [](locks = {appService[o] : o \in {p \in Ops : Holding(p)}})
    /\ \A o \in Ops : AtLock(o) ~> ~AtLock(o)

\* A Create returned the thumbprint error; the Delete on the same app service
\* has taken the lock after it.
C18_Witness ==
    /\ appService["op1"] = appService["op2"]
    /\ ret["op1"] = "error: thumbprint must be specified"
    /\ released["op1"] = 1
    /\ op["op2"] = "HostnameBindingDelete"
    /\ Holding("op2")

Creates == {"CreateUpdate", "HostnameBindingCreate", "ClusterCreate"}

\* The positions of a create up to the end of its import guard.
GuardPcs == {"start", "bindingLock", "bindingGuard", "clusterCreate"}

GuardErrors == {"error: checking for presence", "error: import as exists"}

\* C19: the import guard of the three creates: with the import requirement
\* enabled and a new resource the existence check is made; when it finds a
\* resource with an ID the create returns the import-as-exists error, when it
\* fails with an error other than not-found the create returns that error,
\* and in both cases no mutating call is made and the ID is untouched; a
\* create gets past the guard, and to its mutating call, only without the
\* check or with a not-found answer or an answer without ID.
C19_ImportGuardStopsCreate ==
    \A o \in Ops :
       op[o] \in Creates =>
          LET checked == shouldImport /\ startId[o] = ""
          IN  /\ existing[o] = "Found" => pc[o] = "done" /\ ret[o] = "error: import as exists"
              /\ existing[o] = "Error" => pc[o] = "done" /\ ret[o] = "error: checking for presence"
              /\ ret[o] \in GuardErrors =>
                    /\ checked
                    /\ existing[o] \in {"Found", "Error"}
                    /\ mutations[o] = 0
                    /\ resourceId[o] = startId[o]
              /\ pc[o] \notin GuardPcs =>
                    IF checked THEN existing[o] # "none" ELSE existing[o] = "none"
              /\ mutations[o] > 0 =>
                    existing[o] \in (IF checked THEN {"NotFound", "FoundNoID"} ELSE {"none"})

\* The create of a cluster found the cluster: one API call, no mutation.
C19_Witness ==
    /\ op["op1"] = "ClusterCreate"
    /\ existing["op1"] = "Found"
    /\ ret["op1"] = "error: import as exists"
    /\ apiCalls["op1"] = 1
    /\ mutations["op1"] = 0

-----------------------------------------------------------------------------
(* CustomizeDiff of the cluster resource                                    *)

NetworkPlugins == {"kubenet", "azure", "Azure", ""}
Cidrs == {"", "10.0.0.0/16"}

\* What network_profile can be in the planned configuration: absent, an empty
\* list, or one block.
NetworkProfiles ==
    {NoNetworkProfile, [NoNetworkProfile EXCEPT !.exists = TRUE]}
       \cup [exists : {TRUE}, blocks : {1}, network_plugin : NetworkPlugins, pod_cidr : Cidrs,
              docker_bridge_cidr : Cidrs, dns_service_ip : Cidrs, service_cidr : Cidrs]

\* Mutant of CustomizeDiff: pod_cidr is not looked at.
CustomizeDiffWithoutPodCidr(p) ==
    IF p.exists
      THEN IF p.blocks = 0
             THEN "nil"
           ELSE IF p.network_plugin # "kubenet" /\ p.network_plugin # "azure"
             THEN "nil"
           ELSE IF p.docker_bridge_cidr = "" /\ p.dns_service_ip = "" /\ p.service_cidr = ""
             THEN "nil"
           ELSE IF p.docker_bridge_cidr # "" /\ p.dns_service_ip # "" /\ p.service_cidr # ""
             THEN "nil"
           ELSE "error: should all be empty or all should be set"
      ELSE "nil"

\* The CustomizeDiff function, on the network_profile of the diff.
CustomizeDiff(p) ==
    IF p.exists
      THEN IF p.blocks = 0
             THEN "nil"
           ELSE IF p.network_plugin # "kubenet" /\ p.network_plugin # "azure"
             THEN "nil"
           ELSE IF p.pod_cidr # "" /\ p.network_plugin = "azure"
             THEN "error: pod_cidr and azure cannot be set together"
           ELSE IF p.docker_bridge_cidr = "" /\ p.dns_service_ip = "" /\ p.service_cidr = ""
             THEN "nil"
           ELSE IF p.docker_bridge_cidr # "" /\ p.dns_service_ip # "" /\ p.service_cidr # ""
             THEN "nil"
           ELSE "error: should all be empty or all should be set"
      ELSE "nil"

InitDiff ==
    /\ InitCommon
    /\ networkProfile \in NetworkProfiles
    /\ op = [o \in Ops |-> "None"]
    /\ pc = [o \in Ops |-> "done"]
    /\ resourceId = [o \in Ops |-> ""]
    /\ startId = resourceId
    /\ rule = [o \in Ops |-> "rule-a"]
    /\ appService = [o \in Ops |-> "app-a"]
    /\ hostname = [o \in Ops |-> "host-1"]

\* The plan runs CustomizeDiff on the configuration.
RunCustomizeDiff ==
    /\ diffResult = "none"
    /\ diffResult' = CustomizeDiff(networkProfile)
    /\ UNCHANGED <<lockVars, appService, hostname, bindingRecord, clusterRecord, networkProfile,
                   apiCalls, logVars, handlerVars, pc, ret, ctxDone, pollVars, callVars,
                   guardVars, answers>>

NextDiff == RunCustomizeDiff

SpecDiff == InitDiff /\ [][NextDiff]_vars

-----------------------------------------------------------------------------
(* Delete runs twice in a row on the same resource: the second Delete       *)
(* starts when the first has returned.                                      *)

DeleteKinds == {"Delete", "HostnameBindingDelete", "DscDelete", "DataLakeDelete"}

InitDeleteTwice ==
    /\ InitCommon
    /\ networkProfile = NoNetworkProfile
    /\ \E k \in DeleteKinds :
          /\ op = [o \in Ops |-> k]
          /\ pc = [o \in Ops |-> IF o = "op1" THEN StartPc(k) ELSE "waiting"]
    /\ resourceId = [o \in Ops |-> "id"]
    /\ startId = resourceId
    /\ rule = [o \in Ops |-> "rule-a"]
    /\ appService = [o \in Ops |-> "app-a"]
    /\ hostname = [o \in Ops |-> "host-1"]

\* The second Delete is entered.
SecondDelete ==
    /\ pc["op1"] = "done"
    /\ pc["op2"] = "waiting"
    /\ pc' = [pc EXCEPT !["op2"] = StartPc(op["op2"])]
    /\ UNCHANGED <<hostVars, logVars, handlerVars, ret, ctxDone, pollVars, callVars,
                   guardVars, answers>>

NextDeleteTwice ==
    \/ SecondDelete
    \/ \E o \in Ops :
          \/ Delete(o)
          \/ DeleteWait(o)
          \/ BindingDeleteStart(o)
          \/ BindingDeleteLock(o)
          \/ BindingDeleteCall(o)
          \/ DscDelete(o)
          \/ DataLakeDelete(o)

SpecDeleteTwice == InitDeleteTwice /\ [][NextDeleteTwice]_vars

-----------------------------------------------------------------------------
(* Read, Delete and Create of the four resources                            *)

\* The answer of the call the handler made at a call site, "none" when it made none.
Answer(o, site) ==
    IF \E i \in DOMAIN calls[o] : calls[o][i].site = site
      THEN calls[o][CHOOSE i \in DOMAIN calls[o] : calls[o][i].site = site].answer
      ELSE "none"

ReadErrors == {"error: reading", "error: retrieving"}

\* C21: a Read whose Get answers not-found clears the resource ID, returns no
\* error and leaves the attributes as they were; a Read whose Get fails in any
\* other way returns an error and leaves the resource ID and the attributes
\* as they were. Every Read starts with the ID set and the attributes untouched.
C21_ReadNotFoundClearsId ==
    \A o \in Ops :
       /\ Answer(o, "Read") = "NotFound" =>
             /\ pc[o] = "done"
             /\ resourceId[o] = ""
             /\ ret[o] = "nil"
             /\ attrs[o] = "config"
       /\ Answer(o, "Read") = "Error" =>
             /\ pc[o] = "done"
             /\ ret[o] \in ReadErrors
             /\ resourceId[o] = "id"
             /\ attrs[o] = "config"

\* A Read of a DSC node configuration, run on its own with the ID set, was
\* answered not-found and has cleared the ID.
C21_Witness ==
    /\ op["op1"] = "DscRead"
    /\ Answer("op1", "Read") = "NotFound"
    /\ resourceId["op1"] = ""
    /\ startId["op1"] = "id"

DeleteErrors == {"error: deleting", "error: waiting for deletion"}

\* A Delete's API call, or its wait for completion, failed other than with not-found.
DeleteFailed(o) == Answer(o, "Delete") = "Error" \/ Answer(o, "DeleteWait") = "Error"

\* C22: a Delete that has called the API returns success when the call, or for
\* the MariaDB rule the wait for completion, was answered not-found or
\* succeeded, and returns an error on any other failure; so of two Deletes run
\* in a row on the same resource, the second, told that the resource is gone,
\* succeeds like the first.
C22_DeleteOfAbsentSucceeds ==
    /\ \A o \in Ops :
          (op[o] \in DeleteKinds /\ pc[o] = "done" /\ Answer(o, "Delete") # "none") =>
             /\ ~DeleteFailed(o) => ret[o] = "nil"
             /\ DeleteFailed(o) => ret[o] \in DeleteErrors
    /\ (/\ \A o \in Ops : pc[o] = "done"
        /\ ret["op1"] = "nil"
        /\ Answer("op2", "Delete") = "NotFound") => ret["op2"] = "nil"

\* Both Deletes of a DSC node configuration have returned success: the first
\* deleted it, the second was answered not-found.
C22_Witness ==
    /\ op["op1"] = "DscDelete"
    /\ \A o \in Ops : pc[o] = "done" /\ ret[o] = "nil"
    /\ Answer("op1", "Delete") = "OK"
    /\ Answer("op2", "Delete") = "NotFound"

\* The handlers that create: of the MariaDB rule, the hostname binding, the
\* cluster and the DSC node configuration.
CreateHandlers == Creates \cup {"DscCreateUpdate"}

GetErrors == {"error: retrieving", "error: cannot read ID"}

\* C23: in a create the resource ID is set only after the mutating call
\* succeeded, the wait or poll (where there is one) succeeded, and the
\* follow-up Get returned a response with an ID; when the follow-up Get fails
\* or returns a response with no ID the create returns an error and the ID
\* stays unset.
C23_IdOnlyFromFollowUpGet ==
    \A o \in Ops :
       (op[o] \in CreateHandlers /\ startId[o] = "") =>
          /\ resourceId[o] # "" =>
                /\ Answer(o, "CreateOrUpdate") = "OK"
                /\ op[o] = "CreateUpdate" => outcome[o] = "success"
                /\ op[o] = "ClusterCreate" => Answer(o, "Wait") = "OK"
                /\ Answer(o, "Get") = "OK"
          /\ Answer(o, "Get") \in {"NotFound", "Error", "OKNoID"} =>
                /\ pc[o] = "done"
                /\ ret[o] \in GetErrors
                /\ resourceId[o] = ""

-----------------------------------------------------------------------------
(* ssl_state and thumbprint of a hostname binding                           *)

ValidationErrors ==
    {"error: thumbprint must be specified", "error: ssl_state must be specified"}

\* The Create has read ssl_state and thumbprint.
BindingConfigRead(o) ==
    op[o] = "HostnameBindingCreate" /\ pc[o] \notin {"bindingLock", "bindingGuard"}

\* C24: a Create of a hostname binding with exactly one of ssl_state and
\* thumbprint non-empty returns an error, issues no
\* CreateOrUpdateHostNameBinding call and leaves the ID unset; a Create with
\* both or neither, once past the import guard, issues the call, with both
\* values when both are set and with neither when both are empty.
C24_SslStateAndThumbprintTogether ==
    \A o \in Ops :
       BindingConfigRead(o) =>
          LET one == (sslState[o] = "") # (thumbprint[o] = "")
          IN  /\ one =>
                    /\ pc[o] = "done"
                    /\ ret[o] \in ValidationErrors \cup GuardErrors
                    /\ sentBinding[o] = <<>>
                    /\ Answer(o, "CreateOrUpdate") = "none"
                    /\ mutations[o] = 0
                    /\ resourceId[o] = ""
              /\ ret[o] \in ValidationErrors => one
              /\ (~one /\ ret[o] \notin GuardErrors) =>
                    \/ pc[o] = "bindingCreateOrUpdate" /\ sentBinding[o] = <<>>
                    \/ /\ Len(sentBinding[o]) = 1
                       /\ sentBinding[o][1].SslState = sslState[o]
                       /\ sentBinding[o][1].Thumbprint =
                             (IF thumbprint[o] = "" THEN {} ELSE {thumbprint[o]})
                       /\ Answer(o, "CreateOrUpdate") # "none"

\* A Create with ssl_state set and no thumbprint passed the import guard and
\* returned the error without a call.
C24_Witness ==
    /\ op["op1"] = "HostnameBindingCreate"
    /\ sslState["op1"] = "SniEnabled"
    /\ thumbprint["op1"] = ""
    /\ ret["op1"] = "error: thumbprint must be specified"
    /\ sentBinding["op1"] = <<>>

-----------------------------------------------------------------------------
(* The two mutations of a cluster Update                                    *)

ResetErrors == {"error: updating service principal", "error: waiting for service principal"}

\* The position of the handler's call at a call site in its calls, 0 when it made none.
CallIndex(o, site) ==
    IF \E i \in DOMAIN calls[o] : calls[o][i].site = site
      THEN CHOOSE i \in DOMAIN calls[o] : calls[o][i].site = site
      ELSE 0

\* C25: in a cluster Update with service_principal changed,
\* ResetServicePrincipalProfile is issued and its completion awaited before
\* CreateOrUpdate is issued; when the reset or its wait fails the Update
\* returns an error and CreateOrUpdate is not issued; with service_principal
\* unchanged no reset is made.
C25_ResetBeforeCreateOrUpdate ==
    \A o \in Ops :
       op[o] = "ClusterUpdate" =>
          /\ (servicePrincipalChanged[o] /\ Answer(o, "CreateOrUpdate") # "none") =>
                /\ CallIndex(o, "ResetServicePrincipalProfile") = 1
                /\ CallIndex(o, "ResetWait") = 2
                /\ CallIndex(o, "CreateOrUpdate") = 3
                /\ Answer(o, "ResetServicePrincipalProfile") = "OK"
                /\ Answer(o, "ResetWait") = "OK"
          /\ servicePrincipalChanged[o] => CallIndex(o, "ResetServicePrincipalProfile") = 1
          /\ (\/ Answer(o, "ResetServicePrincipalProfile") = "Error"
              \/ Answer(o, "ResetWait") = "Error") =>
                /\ pc[o] = "done"
                /\ ret[o] \in ResetErrors
                /\ Answer(o, "CreateOrUpdate") = "none"
          /\ (~servicePrincipalChanged[o]) =>
                /\ Answer(o, "ResetServicePrincipalProfile") = "none"
                /\ Answer(o, "ResetWait") = "none"

\* An Update with service_principal changed has issued CreateOrUpdate after
\* the reset and its wait.
C25_Witness ==
    /\ op["op1"] = "ClusterUpdate"
    /\ servicePrincipalChanged["op1"]
    /\ Answer("op1", "ResetWait") = "OK"
    /\ CallIndex("op1", "CreateOrUpdate") = 3

-----------------------------------------------------------------------------
(* The plan-time check of network_profile                                   *)

\* docker_bridge_cidr, dns_service_ip and service_cidr are neither all empty
\* nor all non-empty.
CidrsMixed(p) ==
    LET given == {f \in {"docker_bridge_cidr", "dns_service_ip", "service_cidr"} : p[f] # ""}
    IN  Cardinality(given) \in {1, 2}

\* C26: CustomizeDiff rejects a configuration exactly when network_profile is
\* a non-empty list whose network_plugin is kubenet or azure and either
\* pod_cidr is set with the azure plugin, or docker_bridge_cidr,
\* dns_service_ip and service_cidr are partly set; every other configuration
\* is accepted.
C26_CustomizeDiffRejectsExactly ==
    diffResult # "none" =>
       LET p == networkProfile
           rejected == /\ p.exists
                       /\ p.blocks > 0
                       /\ p.network_plugin \in {"kubenet", "azure"}
                       /\ \/ p.pod_cidr # "" /\ p.network_plugin = "azure"
                          \/ CidrsMixed(p)
       IN  (diffResult # "nil") <=> rejected

\* A profile with the azure plugin, pod_cidr set and the three addresses all
\* set has been rejected.
C26_Witness ==
    /\ networkProfile.network_plugin = "azure"
    /\ networkProfile.pod_cidr # ""
    /\ ~CidrsMixed(networkProfile)
    /\ diffResult \notin {"none", "nil"}

-----------------------------------------------------------------------------
(* The agent pool profiles of a cluster Create or Update                    *)

ClusterWrites == {"ClusterCreate", "ClusterUpdate"}

ExpandError == "error: autoscaling without min_count or max_count"

\* The handler has run the expansion on the blocks it read.
Expanded(o) == op[o] \in ClusterWrites /\ agentPools[o] # <<>>

\* C27: the expansion of the agent pool profiles returns its error, and the
\* Create or Update issues no CreateOrUpdate call, exactly when some pool has
\* enable_auto_scaling set and min_count or max_count not above zero;
\* otherwise one profile per pool is sent, in the order of the configuration.
C27_ExpandFailsExactlyOnUnboundedAutoScaling ==
    \A o \in Ops :
       Expanded(o) =>
          LET configs == agentPools[o]
              unbounded == \E i \in 1..Len(configs) :
                              /\ configs[i].enable_auto_scaling
                              /\ ~(configs[i].min_count > 0 /\ configs[i].max_count > 0)
          IN  /\ unbounded =>
                    /\ pc[o] = "done"
                    /\ ret[o] = ExpandError
                    /\ sentProfiles[o] = <<>>
                    /\ Answer(o, "CreateOrUpdate") = "none"
              /\ ret[o] = ExpandError => unbounded
              /\ ~unbounded =>
                    \/ pc[o] = "clusterCreateOrUpdate" /\ sentProfiles[o] = <<>>
                    \/ /\ Len(sentProfiles[o]) = 1
                       /\ Len(sentProfiles[o][1]) = Len(configs)
                       /\ \A i \in 1..Len(configs) :
                             LET profile == sentProfiles[o][1][i]
                             IN  /\ profile.EnableAutoScaling = configs[i].enable_auto_scaling
                                 /\ profile.MinCount \subseteq {configs[i].min_count}
                                 /\ profile.MaxCount \subseteq {configs[i].max_count}
                                 /\ profile.MinCount = {} <=> configs[i].min_count <= 0
                                 /\ profile.MaxCount = {} <=> configs[i].max_count <= 0

\* An Update read two pools, the second with auto scaling and no max_count,
\* and returned the error without a CreateOrUpdate call.
C27_Witness ==
    /\ op["op1"] = "ClusterUpdate"
    /\ Len(agentPools["op1"]) = 2
    /\ ~agentPools["op1"][1].enable_auto_scaling
    /\ agentPools["op1"][2].enable_auto_scaling
    /\ agentPools["op1"][2].min_count > 0
    /\ agentPools["op1"][2].max_count = 0
    /\ ret["op1"] = ExpandError
    /\ sentProfiles["op1"] = <<>>

\* C28: the Count of a sent agent pool profile is the configured count, except
\* that it is omitted for a pool with auto scaling enabled when the cluster is
\* not a new resource, that is, in every Update.
C28_CountOmittedOnUpdateWithAutoScaling ==
    \A o \in Ops :
       (Expanded(o) /\ sentProfiles[o] # <<>>) =>
          \A i \in 1..Len(agentPools[o]) :
             LET config == agentPools[o][i]
                 profile == sentProfiles[o][1][i]
                 isNew == startId[o] = ""
             IN  /\ (config.enable_auto_scaling /\ ~isNew) => profile.Count = {}
                 /\ (~config.enable_auto_scaling \/ isNew) => profile.Count = {config.count}
                 /\ isNew <=> op[o] = "ClusterCreate"

\* An Update sent two pools with a count of 2: the one with auto scaling
\* without its Count, the other with it.
C28_Witness ==
    /\ op["op1"] = "ClusterUpdate"
    /\ Len(sentProfiles["op1"]) = 1
    /\ Len(agentPools["op1"]) = 2
    /\ agentPools["op1"][1].enable_auto_scaling /\ agentPools["op1"][1].count = 2
    /\ ~agentPools["op1"][2].enable_auto_scaling /\ agentPools["op1"][2].count = 2
    /\ sentProfiles["op1"][1][1].Count = {}
    /\ sentProfiles["op1"][1][2].Count = {2}

====
